---- MODULE Spec2Model ----
(***************************************************************************)
(* Model of scripts/Xsec_aux_functions.py: the fit of absorption cross     *)
(* sections (fit_xsec_data and the fit_poly* design matrices), their       *)
(* evaluation (calculate_xsec, xsec_derivative, calculate_xsec_fullmodel), *)
(* the assembly of a spectrum (calculate_cross_sections) and the adjusted  *)
(* R-square of a fit (calc_Rsquare).                                       *)
(*                                                                         *)
(* The functions are pure.  A behaviour is one call: Init binds the        *)
(* arguments of one function (op, args), the function's action computes    *)
(* the value it returns (ret), or the exception it raises, and sets pc to  *)
(* "done".                                                                 *)
(*                                                                         *)
(* Numbers.  A float is a record [k, n, m, d]: k = "fin" is the real       *)
(* (n + m/ln(10))/d in lowest terms with d > 0 (m # 0 only in a pressure   *)
(* derivative, which divides by P*ln(10)), k = "inf" is +inf (n = 1) or    *)
(* -inf (n = -1), k = "nan" is NaN, and k = "lstsq" is component n of the  *)
(* solution scipy's lstsq returns for a design matrix of d columns (the    *)
(* solver is a library: its result is kept symbolic).  Arithmetic is that  *)
(* of the reals extended with the IEEE rules for inf and NaN; rounding is  *)
(* not modelled.  Pressures are powers of ten, so that log10 is exact, and *)
(* the fitted cross sections are perfect squares, so that sqrt is exact.   *)
(***************************************************************************)
EXTENDS Integers, Sequences, FiniteSets, TLC

VARIABLES op, args, pc, ret

vars == <<op, args, pc, ret>>

----------------------------------------------------------------------------
(* Floats *)

Fin(v) == [k |-> "fin", n |-> v, m |-> 0, d |-> 1]

NaN == [k |-> "nan", n |-> 0, m |-> 0, d |-> 1]

PosInf == [k |-> "inf", n |-> 1, m |-> 0, d |-> 1]

NegInf == [k |-> "inf", n |-> -1, m |-> 0, d |-> 1]

isinf(a) == a.k = "inf"

isnan(a) == a.k = "nan"

Abs(i) == IF i < 0 THEN -i ELSE i

RECURSIVE Gcd(_, _)
Gcd(a, b) == IF b = 0 THEN Abs(a) ELSE Gcd(b, a % b)

\* the real (num + lnum/ln(10))/den (den # 0) in lowest terms, den > 0
Real(num, lnum, den) ==
    LET g == Gcd(Gcd(Abs(num), Abs(lnum)), Abs(den))
        s == IF den < 0 THEN -1 ELSE 1
    IN  [k |-> "fin", n |-> s * (num \div g), m |-> s * (lnum \div g),
         d |-> s * (den \div g)]

Rat(num, den) == Real(num, 0, den)

\* -1, 0 or 1; ln(10) = 2.302585...
Sign(a) ==
    IF a.k = "inf" THEN a.n
    ELSE LET v == a.n * 23026 + a.m * 10000
         IN  IF v > 0 THEN 1 ELSE IF v < 0 THEN -1 ELSE 0

Neg(a) == IF a.k = "nan" THEN NaN ELSE [a EXCEPT !.n = -a.n, !.m = -a.m]

\* a + b
Add(a, b) ==
    CASE a.k = "nan" \/ b.k = "nan" -> NaN
      [] a.k = "inf" -> IF b.k = "inf" /\ b.n # a.n THEN NaN ELSE a
      [] b.k = "inf" -> b
      [] OTHER -> Real(a.n * b.d + b.n * a.d, a.m * b.d + b.m * a.d, a.d * b.d)

Sub(a, b) == Add(a, Neg(b))

\* a * b, where at most one of a and b has a part in 1/ln(10)
Mul(a, b) ==
    CASE a.k = "nan" \/ b.k = "nan" -> NaN
      [] a.k = "inf" \/ b.k = "inf" ->
            IF Sign(a) * Sign(b) = 0 THEN NaN
            ELSE IF Sign(a) * Sign(b) > 0 THEN PosInf ELSE NegInf
      [] OTHER -> Real(a.n * b.n, a.n * b.m + a.m * b.n, a.d * b.d)

\* a < b for floats without a part in 1/ln(10): FALSE when either is NaN
Lt(a, b) ==
    CASE a.k = "nan" \/ b.k = "nan" -> FALSE
      [] a.k = "inf" -> a.n < 0 /\ ~(b.k = "inf" /\ b.n < 0)
      [] b.k = "inf" -> b.n > 0
      [] OTHER -> a.n * b.d < b.n * a.d

Gt(a, b) == Lt(b, a)

\* the exponent of a positive power of ten
RECURSIVE ILog10(_)
ILog10(p) == IF p < 10 THEN 0 ELSE 1 + ILog10(p \div 10)

RECURSIVE IPow10(_)
IPow10(e) == IF e = 0 THEN 1 ELSE 10 * IPow10(e - 1)

\* np.log10 of a float: -inf at 0, NaN below 0
log10(P) ==
    CASE P.k = "nan" -> NaN
      [] P.k = "inf" -> IF P.n > 0 THEN PosInf ELSE NaN
      [] OTHER -> IF P.n < 0 THEN NaN
                  ELSE IF P.n = 0 THEN NegInf
                  ELSE Fin(ILog10(P.n))

\* np.sqrt of a float: NaN below 0
sqrt(X) ==
    CASE X.k = "nan" -> NaN
      [] X.k = "inf" -> IF X.n > 0 THEN PosInf ELSE NaN
      [] OTHER -> IF X.n < 0 THEN NaN
                  ELSE Fin(CHOOSE r \in 0..X.n : r * r = X.n)

SetMin(S) == CHOOSE m \in S : \A e \in S : m <= e

SetMax(S) == CHOOSE m \in S : \A e \in S : m >= e

Range(s) == {s[i] : i \in DOMAIN s}

RECURSIVE SeqSum(_)
SeqSum(s) == IF s = <<>> THEN 0 ELSE Head(s) + SeqSum(Tail(s))

\* s[~mask]: the entries of s whose mask entry is FALSE, in order
RECURSIVE Keep(_, _)
Keep(s, mask) ==
    IF s = <<>> THEN <<>>
    ELSE IF Head(mask) THEN Keep(Tail(s), Tail(mask))
    ELSE <<Head(s)>> \o Keep(Tail(s), Tail(mask))

----------------------------------------------------------------------------
(* scipy.linalg.lstsq(M, zdata): one solution component per column of M;   *)
(* the residuum, the rank and the singular values are the solver's.        *)

lstsq(M, zdata) ==
    LET cols == Len(M[1])
    IN  [poly |-> [j \in 1..cols |-> [k |-> "lstsq", n |-> j - 1, m |-> 0, d |-> cols]],
         res |-> [k |-> "lstsq", n |-> cols, m |-> 0, d |-> cols],
         rnk |-> [k |-> "lstsq", n |-> cols + 1, m |-> 0, d |-> cols],
         s |-> [k |-> "lstsq", n |-> cols + 2, m |-> 0, d |-> cols],
         M |-> M]

ones6 == <<1, 1, 1, 1, 1, 1>>

fit_poly22(xdata, ydata, zdata) ==
    LET M == [i \in 1..Len(xdata) |->
                 <<1, xdata[i], ydata[i], xdata[i] * xdata[i],
                   xdata[i] * ydata[i], ydata[i] * ydata[i]>>]
    IN  lstsq(M, zdata)

fit_poly11(xdata, ydata, zdata) ==
    LET M == [i \in 1..Len(xdata) |->
                 [ones6 EXCEPT ![2] = xdata[i], ![3] = ydata[i]]]
    IN  lstsq(M, zdata)

fit_poly2(xdata, zdata) ==
    LET M == [i \in 1..Len(xdata) |-> <<1, xdata[i], xdata[i] * xdata[i]>>]
    IN  lstsq(M, zdata)

fit_poly1(xdata, zdata) ==
    LET M == [i \in 1..Len(xdata) |-> <<1, xdata[i]>>]
    IN  lstsq(M, zdata)

----------------------------------------------------------------------------
(* calc_Rsquare *)

\* a / b for floats without a part in 1/ln(10), b finite and not 0, or NaN
Div(a, b) ==
    CASE a.k = "nan" \/ b.k = "nan" -> NaN
      [] OTHER -> Real(a.n * b.d, 0, a.d * b.n)

\* np.nansum: the sum of the entries that are not NaN
RECURSIVE nansum(_)
nansum(s) ==
    IF s = <<>> THEN Fin(0)
    ELSE IF isnan(Head(s)) THEN nansum(Tail(s))
    ELSE Add(Head(s), nansum(Tail(s)))

\* np.nanmean: their mean, NaN when there is none
nanmean(s) ==
    LET cnt == Cardinality({i \in DOMAIN s : ~isnan(s[i])})
    IN  IF cnt = 0 THEN NaN ELSE Div(nansum(s), Fin(cnt))

calc_Rsquare(y, yfit, Ncoeffs) ==
    LET Delta_y == [i \in DOMAIN y |-> Sub(y[i], yfit[i])]
        Var_y == [i \in DOMAIN y |-> Sub(y[i], nanmean(y))]
        SSE == nansum([i \in DOMAIN y |-> Mul(Delta_y[i], Delta_y[i])])
        SST0 == nansum([i \in DOMAIN y |-> Mul(Var_y[i], Var_y[i])])
        n0 == Len(y)
        undefined == SST0 = Fin(0) \/ (n0 - Ncoeffs) = 0
        SST == IF undefined THEN NaN ELSE SST0
        n == IF undefined THEN NaN ELSE Fin(n0)
    IN  Sub(Fin(1), Div(Mul(SSE, Sub(n, Fin(1))),
                        Mul(SST, Sub(n, Fin(Ncoeffs)))))

----------------------------------------------------------------------------
(* fit_xsec_data *)

\* logic_bad without the tests of T
logic_bad_T_unchecked(T, P, Xsec) ==
    [i \in 1..Len(T) |->
        LET logic_inf == isinf(log10(P[i])) \/ isinf(sqrt(Xsec[i]))
            logic_nan == isnan(log10(P[i])) \/ isnan(sqrt(Xsec[i]))
        IN  logic_inf \/ logic_nan]

\* logic_bad: the samples with an infinite or NaN T, log10(P) or sqrt(Xsec)
logic_bad(T, P, Xsec) ==
    [i \in 1..Len(T) |->
        LET logic_inf == isinf(T[i]) \/ isinf(log10(P[i])) \/ isinf(sqrt(Xsec[i]))
            logic_nan == isnan(T[i]) \/ isnan(log10(P[i])) \/ isnan(sqrt(Xsec[i]))
        IN  logic_inf \/ logic_nan]

\* np.sum(logic_bad)
CountBad(bad) == Cardinality({i \in DOMAIN bad : bad[i]})

\* select_fit with the linear fits tested before the quadratic ones
select_fit_linear_first(Delta_logP, Delta_T, Ndata, min_deltaLogP, min_deltaT) ==
    IF Delta_logP >= min_deltaLogP /\ Delta_T > min_deltaT /\ Ndata > 5
        THEN "poly22"
    ELSE IF Delta_logP >= min_deltaLogP /\ Delta_T > min_deltaT /\ Ndata > 2
        THEN "poly11"
    ELSE IF Delta_logP < min_deltaLogP /\ Delta_T > min_deltaT /\ Ndata > 1
        THEN "poly1_T"
    ELSE IF Delta_logP < min_deltaLogP /\ Delta_T > min_deltaT /\ Ndata > 2
        THEN "poly2_T"
    ELSE IF Delta_logP > min_deltaLogP /\ Delta_T < min_deltaT /\ Ndata > 1
        THEN "poly1_P"
    ELSE IF Delta_logP > min_deltaLogP /\ Delta_T < min_deltaT /\ Ndata > 2
        THEN "poly2_P"
    ELSE "mean"

\* the if/elif chain that picks the fit
select_fit(Delta_logP, Delta_T, Ndata, min_deltaLogP, min_deltaT) ==
    IF Delta_logP >= min_deltaLogP /\ Delta_T > min_deltaT /\ Ndata > 5
        THEN "poly22"
    ELSE IF Delta_logP >= min_deltaLogP /\ Delta_T > min_deltaT /\ Ndata > 2
        THEN "poly11"
    ELSE IF Delta_logP < min_deltaLogP /\ Delta_T > min_deltaT /\ Ndata > 2
        THEN "poly2_T"
    ELSE IF Delta_logP < min_deltaLogP /\ Delta_T > min_deltaT /\ Ndata > 1
        THEN "poly1_T"
    ELSE IF Delta_logP > min_deltaLogP /\ Delta_T < min_deltaT /\ Ndata > 2
        THEN "poly2_P"
    ELSE IF Delta_logP > min_deltaLogP /\ Delta_T < min_deltaT /\ Ndata > 1
        THEN "poly1_P"
    ELSE "mean"

zeros6 == [i \in 1..6 |-> Fin(0)]

\* where each branch puts the solution p of its solve
coeffs_poly22(p) == p

\* coeffs_poly11 keeping the whole solution, as the full fit does
coeffs_poly11_all(p) == p

coeffs_poly11(p) == [zeros6 EXCEPT ![1] = p[1], ![2] = p[2], ![3] = p[3]]

\* coeffs_poly2_T with the quadratic coefficient stored as p01
coeffs_poly2_T_shifted(p) == [zeros6 EXCEPT ![1] = p[1], ![2] = p[2], ![3] = p[3]]

coeffs_poly2_T(p) == [zeros6 EXCEPT ![1] = p[1], ![2] = p[2], ![4] = p[3]]

coeffs_poly1_T(p) == [zeros6 EXCEPT ![1] = p[1], ![2] = p[2]]

coeffs_poly2_P(p) == [zeros6 EXCEPT ![1] = p[1], ![3] = p[2], ![6] = p[3]]

coeffs_poly1_P(p) == [zeros6 EXCEPT ![1] = p[1], ![3] = p[2]]

\* the branch without a fit: the mean of zData and the squared deviations
fit_mean(zData) ==
    LET N == Len(zData)
        sum == SeqSum(zData)
        sumsq == SeqSum([i \in 1..N |-> zData[i] * zData[i]])
    IN  [coeffs |-> [zeros6 EXCEPT ![1] = Rat(sum, N)],
         res |-> Rat(N * sumsq - sum * sum, N),
         rnk |-> NaN, s |-> NaN, M |-> <<>>]

\* the result of a solve f with its solution placed as c
solved(f, c) == [coeffs |-> c, res |-> f.res, rnk |-> f.rnk, s |-> f.s, M |-> f.M]

\* the body of the selected branch: the coefficients, the solver's
\* diagnostics and the design matrix handed to the solver (<<>>: none)
run_fit(branch, xData, yData, zData) ==
    CASE branch = "poly22" ->
            LET f == fit_poly22(xData, yData, zData)
            IN  solved(f, coeffs_poly22(f.poly))
      [] branch = "poly11" ->
            LET f == fit_poly11(xData, yData, zData)
            IN  solved(f, coeffs_poly11(f.poly))
      [] branch = "poly2_T" ->
            LET f == fit_poly2(xData, zData)
            IN  solved(f, coeffs_poly2_T(f.poly))
      [] branch = "poly1_T" ->
            LET f == fit_poly1(xData, zData)
            IN  solved(f, coeffs_poly1_T(f.poly))
      [] branch = "poly2_P" ->
            LET f == fit_poly2(yData, zData)
            IN  solved(f, coeffs_poly2_P(f.poly))
      [] branch = "poly1_P" ->
            LET f == fit_poly1(yData, zData)
            IN  solved(f, coeffs_poly1_P(f.poly))
      [] OTHER -> fit_mean(zData)

\* envelope with the pressures left as log10(P)
envelope_log(xData, yData) ==
    [MinP |-> Fin(SetMin(Range(yData))),
     MaxP |-> Fin(SetMax(Range(yData))),
     MinT |-> Fin(SetMin(Range(xData))),
     MaxT |-> Fin(SetMax(Range(xData)))]

\* MinP, MaxP, MinT, MaxT of the samples that were fitted
envelope(xData, yData) ==
    [MinP |-> Fin(SetMin({IPow10(yData[i]) : i \in DOMAIN yData})),
     MaxP |-> Fin(SetMax({IPow10(yData[i]) : i \in DOMAIN yData})),
     MinT |-> Fin(SetMin(Range(xData))),
     MaxT |-> Fin(SetMax(Range(xData)))]

\* degenerate_result with the sentinels of an empty minimum and maximum swapped
degenerate_result_swapped ==
    [coefficients |-> zeros6, residuum |-> NaN, rank |-> NaN, sgl_val |-> NaN,
     MinP |-> NegInf, MaxP |-> PosInf, MinT |-> NegInf, MaxT |-> PosInf,
     NumberOfPoints |-> 0]

\* the result when every sample is bad
degenerate_result ==
    [coefficients |-> zeros6, residuum |-> NaN, rank |-> NaN, sgl_val |-> NaN,
     MinP |-> PosInf, MaxP |-> NegInf, MinT |-> PosInf, MaxT |-> NegInf,
     NumberOfPoints |-> 0]

\* fit_result, with the branch taken and the design matrix of the solve
fit_xsec_data(T, P, Xsec, min_deltaLogP, min_deltaT) ==
    LET bad == logic_bad(T, P, Xsec)
    IN  IF CountBad(bad) < Len(T)
        THEN
            LET xData == [i \in DOMAIN Keep(T, bad) |-> Keep(T, bad)[i].n]
                yData == [i \in DOMAIN Keep(P, bad) |-> log10(Keep(P, bad)[i]).n]
                zData == [i \in DOMAIN Keep(Xsec, bad) |->
                             sqrt(Keep(Xsec, bad)[i]).n]
                Ndata == Len(T) - CountBad(bad)
                Delta_logP == SetMax(Range(yData)) - SetMin(Range(yData))
                Delta_T == SetMax(Range(xData)) - SetMin(Range(xData))
                branch == select_fit(Delta_logP, Delta_T, Ndata,
                                     min_deltaLogP, min_deltaT)
                f == run_fit(branch, xData, yData, zData)
                env == envelope(xData, yData)
            IN  [fit_result |->
                    [coefficients |-> f.coeffs, residuum |-> f.res,
                     rank |-> f.rnk, sgl_val |-> f.s,
                     MinP |-> env.MinP, MaxP |-> env.MaxP,
                     MinT |-> env.MinT, MaxT |-> env.MaxT,
                     NumberOfPoints |-> Ndata],
                 branch |-> branch, M |-> f.M]
        ELSE [fit_result |-> degenerate_result, branch |-> "none", M |-> <<>>]

----------------------------------------------------------------------------
(* calculate_xsec, xsec_derivative, calculate_xsec_fullmodel.  coeffs is a  *)
(* matrix: one row per coefficient, one column per frequency bin.           *)

\* index_error raised for every matrix that has not exactly 6 rows
index_error_exact(coeffs) == Len(coeffs) # 6

\* coeffs[i, :] for i in range(6) raises IndexError: a row i is missing
index_error(coeffs) == \E i \in 0..5 : i >= Len(coeffs)

\* what a call that raised leaves to its caller
IndexError == [raised |-> "IndexError"]

\* np.sum(mat, axis=0)[b]
RECURSIVE ColSum(_, _, _)
ColSum(mat, b, i) ==
    IF i > Len(mat) THEN Fin(0) ELSE Add(mat[i][b], ColSum(mat, b, i + 1))

\* np.sum(sqrtXsec, axis=0): the products coeffs[i, :] * poly[i], summed
sum_sqrtXsec(T, P, coeffs) ==
    LET logP == log10(P)
        poly == <<Fin(1), T, logP, Mul(T, T), Mul(T, logP), Mul(logP, logP)>>
        nb == Len(coeffs[1])
        sqrtXsec == [i \in 1..Len(coeffs) |-> [b \in 1..nb |->
                        IF i <= 6 THEN Mul(coeffs[i][b], poly[i]) ELSE Fin(0)]]
    IN  [b \in 1..nb |-> ColSum(sqrtXsec, b, 1)]

\* calculate_xsec without the square that undoes the sqrt of the fit
calculate_xsec_unsquared(T, P, coeffs) == sum_sqrtXsec(T, P, coeffs)

calculate_xsec(T, P, coeffs) ==
    LET sum == sum_sqrtXsec(T, P, coeffs)
    IN  [b \in DOMAIN sum |-> Mul(sum[b], sum[b])]

\* a / Plog, with Plog = P * ln(10); a has no part in 1/ln(10)
DivPlog(a, P) ==
    CASE a.k = "nan" \/ P.k = "nan" -> NaN
      [] P.k = "inf" -> IF a.k = "inf" THEN NaN ELSE Fin(0)
      [] P.n = 0 -> IF Sign(a) = 0 THEN NaN
                    ELSE IF Sign(a) > 0 THEN PosInf ELSE NegInf
      [] a.k = "inf" -> IF Sign(a) * Sign(P) > 0 THEN PosInf ELSE NegInf
      [] OTHER -> Real(0, a.n * P.d, a.d * P.n)

\* the fitted polynomial z = sqrt(Xsec) of bin b
z_poly(T, logP, coeffs, b) ==
    LET p00 == coeffs[1][b]
        p10 == coeffs[2][b]
        p01 == coeffs[3][b]
        p20 == coeffs[4][b]
        p11 == coeffs[5][b]
        p02 == coeffs[6][b]
    IN  Add(Add(Add(Add(Add(p00, Mul(p10, T)), Mul(p20, Mul(T, T))),
                    Mul(p01, logP)), Mul(Mul(p11, T), logP)),
            Mul(p02, Mul(logP, logP)))

DxsecDT(T, P, coeffs) ==
    LET logP == log10(P)
    IN  [b \in 1..Len(coeffs[1]) |->
            LET p10 == coeffs[2][b]
                p20 == coeffs[4][b]
                p11 == coeffs[5][b]
            IN  Mul(Mul(Fin(2),
                        Add(Add(p10, Mul(Mul(Fin(2), p20), T)), Mul(p11, logP))),
                    z_poly(T, logP, coeffs, b))]

\* DxsecDp reading p10 where the derivative has p01
DxsecDp_p10(T, P, coeffs) ==
    LET logP == log10(P)
    IN  [b \in 1..Len(coeffs[1]) |->
            LET p01 == coeffs[2][b]
                p11 == coeffs[5][b]
                p02 == coeffs[6][b]
            IN  Mul(Mul(Fin(2),
                        Add(Add(DivPlog(p01, P), DivPlog(Mul(p11, T), P)),
                            DivPlog(Mul(Mul(Fin(2), p02), logP), P))),
                    z_poly(T, logP, coeffs, b))]

DxsecDp(T, P, coeffs) ==
    LET logP == log10(P)
    IN  [b \in 1..Len(coeffs[1]) |->
            LET p01 == coeffs[3][b]
                p11 == coeffs[5][b]
                p02 == coeffs[6][b]
            IN  Mul(Mul(Fin(2),
                        Add(Add(DivPlog(p01, P), DivPlog(Mul(p11, T), P)),
                            DivPlog(Mul(Mul(Fin(2), p02), logP), P))),
                    z_poly(T, logP, coeffs, b))]

xsec_derivative(T, P, coeffs) ==
    [DxsecDT |-> DxsecDT(T, P, coeffs), DxsecDp |-> DxsecDp(T, P, coeffs)]

\* outside with the boundary of the envelope counted as outside
outside_closed(T, P, minT, maxT, minP, maxP) ==
    \/ Lt(P, minP) \/ P = minP \/ Gt(P, maxP) \/ P = maxP
    \/ Lt(T, minT) \/ T = minT \/ Gt(T, maxT) \/ T = maxT

\* the test that sends a query to the extrapolation
outside(T, P, minT, maxT, minP, maxP) ==
    Lt(P, minP) \/ Gt(P, maxP) \/ Lt(T, minT) \/ Gt(T, maxT)

\* P0 without the case of a pressure inside the envelope
P0_no_else(P, minP, maxP) == IF Lt(P, minP) THEN minP ELSE maxP

P0(P, minP, maxP) ==
    IF Lt(P, minP) THEN minP ELSE IF Gt(P, maxP) THEN maxP ELSE P

T0(T, minT, maxT) ==
    IF Lt(T, minT) THEN minT ELSE IF Gt(T, maxT) THEN maxT ELSE T

\* extrapolate with the derivatives taken at the query instead of (T0, P0)
extrapolate_at_query(T, P, coeffs, Tc, Pc) ==
    LET xsec_0 == calculate_xsec(Tc, Pc, coeffs)
        D == xsec_derivative(T, P, coeffs)
    IN  [b \in 1..Len(coeffs[1]) |->
            Add(Add(xsec_0[b], Mul(D.DxsecDT[b], Sub(T, Tc))),
                Mul(D.DxsecDp[b], Sub(P, Pc)))]

\* xsec_0 + DxsecDT * (T - T0) + DxsecDp * (P - P0), per bin
extrapolate(T, P, coeffs, Tc, Pc) ==
    LET xsec_0 == calculate_xsec(Tc, Pc, coeffs)
        D == xsec_derivative(Tc, Pc, coeffs)
    IN  [b \in 1..Len(coeffs[1]) |->
            Add(Add(xsec_0[b], Mul(D.DxsecDT[b], Sub(T, Tc))),
                Mul(D.DxsecDp[b], Sub(P, Pc)))]

calculate_xsec_fullmodel(T, P, coeffs, minT, maxT, minP, maxP) ==
    IF outside(T, P, minT, maxT, minP, maxP)
    THEN extrapolate(T, P, coeffs, T0(T, minT, maxT), P0(P, minP, maxP))
    ELSE calculate_xsec(T, P, coeffs)

----------------------------------------------------------------------------
(* calculate_cross_sections.  Frequencies are integers in units of 100 Hz, *)
(* so that wvn * c0 * 100 Hz is wvn * c0 units.                            *)

\* speed of light [m/s]
c0 == 299792458

freq_of_wvn(wvn_user) == [i \in DOMAIN wvn_user |-> wvn_user[i] * c0]

\* data.transpose(): from one row per bin to one row per coefficient
transpose(data) ==
    [i \in 1..Len(data[1]) |-> [b \in 1..Len(data) |-> data[b][i]]]

\* interp1d(x, y, fill_value=0., bounds_error=False)(x_new), x increasing:
\* linear between the neighbours of x_new, fill_value outside [x[1], x[-1]]
linear(x, y, x_new) ==
    LET i == CHOOSE j \in 1..Len(x) :
                 /\ x_new <= x[j]
                 /\ \A l \in 1..(j - 1) : x[l] < x_new
        hi == IF i < 2 THEN 2 ELSE i
        lo == hi - 1
    IN  Add(Mul(Sub(y[hi], y[lo]), Rat(x_new - x[lo], x[hi] - x[lo])), y[lo])

\* interp1d holding the edge values outside the grid
interp1d_edge(x, y, x_new) ==
    IF x_new < x[1] THEN y[1]
    ELSE IF x_new > x[Len(x)] THEN y[Len(x)] ELSE linear(x, y, x_new)

interp1d(x, y, x_new) ==
    IF x_new < x[1] \/ x_new > x[Len(x)] THEN Fin(0) ELSE linear(x, y, x_new)

\* xsec_user_m: band m on the user's grid
xsec_user_m(band, freq_user, temperature, pressure) ==
    LET freq_data == band.freq_data
        coeffs_m == transpose(band.data)
        xsec_temp == calculate_xsec_fullmodel(temperature, pressure, coeffs_m,
                         band.MinT, band.MaxT, band.MinP, band.MaxP)
    IN  [i \in DOMAIN freq_user |-> interp1d(freq_data, xsec_temp, freq_user[i])]

\* sum_bands with each band overwriting the sum so far
RECURSIVE sum_bands_last(_, _, _, _, _, _)
sum_bands_last(xsec_user, m, xsec_data, freq_user, temperature, pressure) ==
    IF m > Len(xsec_data) THEN xsec_user
    ELSE sum_bands_last(xsec_user_m(xsec_data[m], freq_user, temperature, pressure),
                        m + 1, xsec_data, freq_user, temperature, pressure)

\* the loop over the bands m..len(xsec_data.fitcoeffs), from the sum so far
RECURSIVE sum_bands(_, _, _, _, _, _)
sum_bands(xsec_user, m, xsec_data, freq_user, temperature, pressure) ==
    IF m > Len(xsec_data) THEN xsec_user
    ELSE LET um == xsec_user_m(xsec_data[m], freq_user, temperature, pressure)
         IN  sum_bands([i \in DOMAIN xsec_user |-> Add(xsec_user[i], um[i])],
                       m + 1, xsec_data, freq_user, temperature, pressure)

calculate_cross_sections(wvn_user, xsec_data, temperature, pressure) ==
    LET freq_user == freq_of_wvn(wvn_user)
        zeros == [i \in DOMAIN wvn_user |-> Fin(0)]
    IN  sum_bands(zeros, 1, xsec_data, freq_user, temperature, pressure)

----------------------------------------------------------------------------
(* The calls *)

\* the longest sample array
MaxLen == 6

\* the samples a measurement series is drawn from: <<T, P, Xsec>>
Observations ==
    << <<NaN, Fin(10000), Fin(4)>>,
       <<Fin(250), Fin(10), Fin(1)>>,
       <<Fin(300), Fin(0), Fin(4)>>,
       <<Fin(200), Fin(10), Fin(4)>>,
       <<Fin(100), Fin(1), Fin(-1)>>,
       <<Fin(200), Fin(1000), Fin(0)>>,
       <<PosInf, Fin(10), Fin(4)>>,
       <<Fin(220), Fin(10), Fin(9)>>,
       <<Fin(200), Fin(-10), Fin(4)>>,
       <<Fin(200), Fin(10), PosInf>> >>

\* the non-decreasing sequences of n indices in 1..K
RECURSIVE Sorted(_, _)
Sorted(n, K) ==
    IF n = 0 THEN {<<>>}
    ELSE {Append(p[1], p[2]) :
            p \in {q \in Sorted(n - 1, K) \X (1..K) :
                       q[1] = <<>> \/ q[1][Len(q[1])] <= q[2]}}

\* the series of n samples: the order of the samples within a series does
\* not enter the fit
Series(n) == Sorted(n, Len(Observations))

\* min_deltaLogP, in decades of pressure, and min_deltaT, in K: arguments of
\* the fit (the defaults are 0.2 and 20.)
MinDeltaLogPs == {1, 2}

MinDeltaTs == {20, 50}

\* the arguments of a fit of the series s with the thresholds l and t
FitArgs(s, l, t) ==
    [T |-> [i \in DOMAIN s |-> Observations[s[i]][1]],
     P |-> [i \in DOMAIN s |-> Observations[s[i]][2]],
     Xsec |-> [i \in DOMAIN s |-> Observations[s[i]][3]],
     min_deltaLogP |-> l, min_deltaT |-> t]

\* the longest vectors of true and fitted values
MaxSamples == 3

\* the true values y, the fitted values yfit and the number of coefficients
RsquareArgs ==
    UNION {[y : [1..n -> {NaN, Fin(1), Fin(3)}],
            yfit : [1..n -> {NaN, Fin(1)}],
            Ncoeffs : 1..3] : n \in 0..MaxSamples}

\* the most frequency bins of a coefficient matrix
MaxBins == 2

\* the coefficients p00, p10, p01, p20, p11, p02 of one frequency bin
CoefVecs ==
    << <<0, 0, 0, 0, 0, 0>>, <<3, 0, 0, 0, 0, 0>>, <<5, -1, 1, 0, 0, 0>>,
       <<1, 1, 0, -1, 0, 0>>, <<2, 0, -1, 0, 0, 1>>, <<-1, 1, 2, 1, -1, 1>> >>

FinVec(v) == [i \in DOMAIN v |-> Fin(v[i])]

\* the stored coefficients: one row of 6 per bin; every bin is evaluated on
\* its own, so the bins are taken in one order only
BinData ==
    UNION {{[b \in 1..n |-> FinVec(CoefVecs[s[b]])] : s \in Sorted(n, Len(CoefVecs))} :
              n \in 1..MaxBins}

QueryT == {Fin(10), Fin(20), Fin(30), Fin(40)}

QueryP == {Fin(1), Fin(10), Fin(100)}

\* <<minT, maxT, minP, maxP>> of a fit; the defaults are 0 and inf
Envelopes ==
    { <<Fin(20), Fin(30), Fin(10), Fin(100)>>,
      <<Fin(20), Fin(20), Fin(10), Fin(10)>>,
      <<Fin(20), Fin(30), Fin(0), PosInf>>,
      <<Fin(0), PosInf, Fin(10), Fin(10)>>,
      <<Fin(0), PosInf, Fin(0), PosInf>> }

\* the rows of a coefficient matrix that is not the fit's
RowCounts == {5, 7}

\* c with r rows: its first rows, then rows of 7
Resized(c, r) ==
    [i \in 1..r |-> IF i <= Len(c) THEN c[i] ELSE [b \in DOMAIN c[1] |-> Fin(7)]]

\* the coefficient matrices of a call: one row per coefficient
CoeffsData ==
    {transpose(c) : c \in BinData}
        \cup {Resized(transpose(c), r) :
                   c \in {<<FinVec(CoefVecs[j])>> : j \in DOMAIN CoefVecs},
                   r \in RowCounts}

XsecArgs ==
    {[T |-> t, P |-> p, coeffs |-> c] :
        t \in QueryT, p \in QueryP, c \in CoeffsData}

FullmodelArgs ==
    {[T |-> t, P |-> p, coeffs |-> c,
      minT |-> e[1], maxT |-> e[2], minP |-> e[3], maxP |-> e[4]] :
        t \in QueryT, p \in QueryP, c \in CoeffsData, e \in Envelopes}

\* the most bands of a species record
MaxBands == 2

\* the wavenumbers asked for [1/cm]
UserGrids == {<<1>>, <<2, 3>>, <<6, 4, 3>>, <<5, 1, 2, 4>>}

\* the bands a species record is made of: the frequency grid [100 Hz], the
\* stored coefficients of each of its bins and the envelope of the fit; the
\* last one stores the result of a fit without valid samples
Bands ==
    { [freq_data |-> <<2 * c0, 3 * c0, 4 * c0>>,
       data |-> <<FinVec(<<-1, 1, 2, 1, -1, 1>>), FinVec(<<3, 0, 0, 0, 0, 0>>),
                  FinVec(<<5, -1, 1, 0, 0, 0>>)>>,
       MinT |-> Fin(20), MaxT |-> Fin(30), MinP |-> Fin(10), MaxP |-> Fin(100)],
      [freq_data |-> <<3 * c0, 5 * c0>>,
       data |-> <<FinVec(<<2, 0, -1, 0, 0, 1>>), FinVec(<<1, 1, 0, -1, 0, 0>>)>>,
       MinT |-> Fin(20), MaxT |-> Fin(20), MinP |-> Fin(10), MaxP |-> Fin(10)],
      [freq_data |-> <<5 * (c0 \div 2), 7 * (c0 \div 2)>>,
       data |-> <<FinVec(<<3, 0, 0, 0, 0, 0>>), FinVec(<<5, -1, 1, 0, 0, 0>>)>>,
       MinT |-> Fin(0), MaxT |-> PosInf, MinP |-> Fin(0), MaxP |-> PosInf],
      [freq_data |-> <<c0, 3 * c0>>,
       data |-> <<degenerate_result.coefficients, degenerate_result.coefficients>>,
       MinT |-> degenerate_result.MinT, MaxT |-> degenerate_result.MaxT,
       MinP |-> degenerate_result.MinP, MaxP |-> degenerate_result.MaxP] }

CrossSectionsArgs ==
    {[wvn_user |-> w, xsec_data |-> x, temperature |-> t, pressure |-> p] :
        w \in UserGrids,
        x \in UNION {[1..n -> Bands] : n \in 0..MaxBands},
        t \in {Fin(20), Fin(40)}, p \in {Fin(1), Fin(10)}}

NoRet == [none |-> TRUE]

Init ==
    /\ pc = "call"
    /\ ret = NoRet
    /\ \/ /\ op = "fit_xsec_data"
          /\ \E n \in 0..MaxLen : \E s \in Series(n) :
                \E l \in MinDeltaLogPs, t \in MinDeltaTs :
                    args = FitArgs(s, l, t)
       \/ op = "calculate_xsec" /\ args \in XsecArgs
       \/ op = "xsec_derivative" /\ args \in XsecArgs
       \/ op = "calculate_xsec_fullmodel" /\ args \in FullmodelArgs
       \/ op = "calculate_cross_sections" /\ args \in CrossSectionsArgs
       \/ op = "calc_Rsquare" /\ args \in RsquareArgs

FitXsecData ==
    /\ pc = "call" /\ op = "fit_xsec_data"
    /\ ret' = fit_xsec_data(args.T, args.P, args.Xsec,
                            args.min_deltaLogP, args.min_deltaT)
    /\ pc' = "done"
    /\ UNCHANGED <<op, args>>

CalculateXsec ==
    /\ pc = "call" /\ op = "calculate_xsec"
    /\ ret' = IF index_error(args.coeffs) THEN IndexError
              ELSE [Xsec |-> calculate_xsec(args.T, args.P, args.coeffs)]
    /\ pc' = "done"
    /\ UNCHANGED <<op, args>>

XsecDerivative ==
    /\ pc = "call" /\ op = "xsec_derivative"
    /\ ret' = IF index_error(args.coeffs) THEN IndexError
              ELSE xsec_derivative(args.T, args.P, args.coeffs)
    /\ pc' = "done"
    /\ UNCHANGED <<op, args>>

CalculateXsecFullmodel ==
    /\ pc = "call" /\ op = "calculate_xsec_fullmodel"
    /\ ret' = IF index_error(args.coeffs) THEN IndexError
              ELSE [xsec |-> calculate_xsec_fullmodel(args.T, args.P,
                                 args.coeffs, args.minT, args.maxT,
                                 args.minP, args.maxP),
                    extrapolated |-> outside(args.T, args.P, args.minT,
                                             args.maxT, args.minP, args.maxP)]
    /\ pc' = "done"
    /\ UNCHANGED <<op, args>>

CalculateCrossSections ==
    /\ pc = "call" /\ op = "calculate_cross_sections"
    /\ ret' = [xsec_user |-> calculate_cross_sections(args.wvn_user,
                            args.xsec_data, args.temperature, args.pressure),
               xsec_user_m |-> [m \in DOMAIN args.xsec_data |->
                            xsec_user_m(args.xsec_data[m],
                                        freq_of_wvn(args.wvn_user),
                                        args.temperature, args.pressure)]]
    /\ pc' = "done"
    /\ UNCHANGED <<op, args>>

CalcRsquare ==
    /\ pc = "call" /\ op = "calc_Rsquare"
    /\ ret' = [rsquare |-> calc_Rsquare(args.y, args.yfit, args.Ncoeffs)]
    /\ pc' = "done"
    /\ UNCHANGED <<op, args>>

Next ==
    \/ CalcRsquare
    \/ FitXsecData
    \/ CalculateXsec
    \/ XsecDerivative
    \/ CalculateXsecFullmodel
    \/ CalculateCrossSections

Spec == Init /\ [][Next]_vars

----------------------------------------------------------------------------
(* What the claims are stated with: the valid samples of a fit's input,    *)
(* read off the arguments.                                                 *)

FitDone == pc = "done" /\ op = "fit_xsec_data"

\* the indices whose T, log10(P) and sqrt(Xsec) are finite numbers
ValidIdx ==
    {i \in DOMAIN args.T :
        /\ args.T[i].k = "fin"
        /\ args.P[i].k = "fin" /\ args.P[i].n > 0
        /\ args.Xsec[i].k = "fin" /\ args.Xsec[i].n >= 0}

NValid == Cardinality(ValidIdx)

Exponent(p) == CHOOSE e \in 0..9 : 10 ^ e = p

ValidT == {args.T[i].n : i \in ValidIdx}

ValidP == {args.P[i].n : i \in ValidIdx}

ValidLogP == {Exponent(q) : q \in ValidP}

SpreadT == SetMax(ValidT) - SetMin(ValidT)

SpreadLogP == SetMax(ValidLogP) - SetMin(ValidLogP)

RECURSIVE Ascending(_)
Ascending(S) ==
    IF S = {} THEN <<>> ELSE <<SetMin(S)>> \o Ascending(S \ {SetMin(S)})

\* the basis function of coefficient position i: 1, x, y, x^2, xy, y^2
Basis(i, x, y) ==
    CASE i = 1 -> 1 [] i = 2 -> x [] i = 3 -> y
      [] i = 4 -> x * x [] i = 5 -> x * y [] OTHER -> y * y

\* the coefficient positions of each branch's model
UsedPositions(branch) ==
    CASE branch = "poly22" -> {1, 2, 3, 4, 5, 6}
      [] branch = "poly11" -> {1, 2, 3}
      [] branch = "poly2_T" -> {1, 2, 4}
      [] branch = "poly1_T" -> {1, 2}
      [] branch = "poly2_P" -> {1, 3, 6}
      [] branch = "poly1_P" -> {1, 3}
      [] branch = "mean" -> {1}
      [] OTHER -> {}

\* coefficient c is the solver's component for the column of M that holds
\* the basis function of position i at every valid sample
SolvedFor(c, i, M) ==
    /\ c.k = "lstsq"
    /\ c.n + 1 \in DOMAIN M[1]
    /\ Len(M) = NValid
    /\ LET asc == Ascending(ValidIdx)
       IN  \A r \in 1..NValid :
               M[r][c.n + 1] = Basis(i, args.T[asc[r]].n,
                                     Exponent(args.P[asc[r]].n))

\* the branches in the order the chain tests them, with the spread
\* condition and the sample gate of each
Priority ==
    <<"poly22", "poly11", "poly2_T", "poly1_T", "poly2_P", "poly1_P", "mean">>

SpreadHolds(branch) ==
    CASE branch \in {"poly22", "poly11"} ->
            SpreadLogP >= args.min_deltaLogP /\ SpreadT > args.min_deltaT
      [] branch \in {"poly2_T", "poly1_T"} ->
            SpreadLogP < args.min_deltaLogP /\ SpreadT > args.min_deltaT
      [] branch \in {"poly2_P", "poly1_P"} ->
            SpreadLogP > args.min_deltaLogP /\ SpreadT < args.min_deltaT
      [] OTHER -> TRUE

GateHolds(branch) ==
    CASE branch = "poly22" -> NValid > 5
      [] branch \in {"poly11", "poly2_T", "poly2_P"} -> NValid > 2
      [] branch \in {"poly1_T", "poly1_P"} -> NValid > 1
      [] OTHER -> TRUE

----------------------------------------------------------------------------
(* C1: whichever branch fit_xsec_data takes, the coefficients are 6        *)
(* entries in the order p00, p10, p01, p20, p11, p02: every position of    *)
(* the selected model holds the solver's component for that position's     *)
(* basis function (the mean, in the constant branch) and every other       *)
(* position is exactly 0.                                                  *)
C1_ShapeInvariant ==
    FitDone =>
        LET c == ret.fit_result.coefficients
        IN  /\ DOMAIN c = 1..6
            /\ \A i \in 1..6 :
                  IF i \notin UsedPositions(ret.branch) THEN c[i] = Fin(0)
                  ELSE IF ret.branch = "mean" THEN c[i].k = "fin"
                  ELSE SolvedFor(c[i], i, ret.M)

\* a bilinear fit: three positions used, three zero-filled
C1_Witness ==
    /\ FitDone
    /\ ret.branch = "poly11"
    /\ ret.fit_result.coefficients[3].k = "lstsq"
    /\ ret.fit_result.coefficients[6] = Fin(0)

----------------------------------------------------------------------------
(* C2: with at least one valid sample, fit_xsec_data takes exactly one     *)
(* branch: the first in the order full, bilinear, quadratic in T, linear   *)
(* in T, quadratic in P, linear in P, constant whose spread condition and  *)
(* sample gate both hold; when a richer branch's spread condition holds    *)
(* and its gate fails, the simpler branch on the same axes is taken if its *)
(* own gate holds.                                                         *)
C2_FirstBranchInPriorityOrder ==
    (FitDone /\ NValid > 0) =>
        /\ \E j \in 1..7 :
              /\ ret.branch = Priority[j]
              /\ SpreadHolds(Priority[j]) /\ GateHolds(Priority[j])
              /\ \A l \in 1..(j - 1) :
                    ~(SpreadHolds(Priority[l]) /\ GateHolds(Priority[l]))
        /\ (SpreadHolds("poly22") /\ ~GateHolds("poly22") /\ GateHolds("poly11"))
              => ret.branch = "poly11"
        /\ (SpreadHolds("poly2_T") /\ ~GateHolds("poly2_T") /\ GateHolds("poly1_T"))
              => ret.branch = "poly1_T"
        /\ (SpreadHolds("poly2_P") /\ ~GateHolds("poly2_P") /\ GateHolds("poly1_P"))
              => ret.branch = "poly1_P"

\* two valid samples that differ in pressure only: the quadratic in P is
\* gated out and the linear fit in P is taken
C2_Witness ==
    /\ FitDone
    /\ NValid = 2
    /\ SpreadHolds("poly2_P")
    /\ ret.branch = "poly1_P"

----------------------------------------------------------------------------
(* C3 (as claimed): with more than 5 valid samples, the constant branch is *)
(* taken only if both spreads are below their thresholds, and the full     *)
(* quadratic fit is taken whenever both spreads are at least their         *)
(* thresholds, a spread equal to its threshold included.                   *)
C3_RicherModelWheneverSpread ==
    (FitDone /\ NValid > 5) =>
        /\ ret.branch = "mean"
              => (SpreadT < args.min_deltaT /\ SpreadLogP < args.min_deltaLogP)
        /\ (SpreadT >= args.min_deltaT /\ SpreadLogP >= args.min_deltaLogP)
              => ret.branch = "poly22"

----------------------------------------------------------------------------
(* C4: when the valid samples have DeltaT > min_deltaT, DeltaLogP <        *)
(* min_deltaLogP and N > 2, the quadratic fit in T is taken: the solver    *)
(* gets the design matrix [1, T, T^2] of the valid samples, its solution   *)
(* is stored in p00, p10, p20, and p01, p11, p02 are exactly 0.            *)
C4_QuadraticInTOnly ==
    (/\ FitDone /\ NValid > 2
     /\ SpreadT > args.min_deltaT /\ SpreadLogP < args.min_deltaLogP) =>
        LET c == ret.fit_result.coefficients
        IN  /\ ret.branch = "poly2_T"
            /\ Len(ret.M[1]) = 3
            /\ c[1].n = 0 /\ SolvedFor(c[1], 1, ret.M)
            /\ c[2].n = 1 /\ SolvedFor(c[2], 2, ret.M)
            /\ c[4].n = 2 /\ SolvedFor(c[4], 4, ret.M)
            /\ c[3] = Fin(0) /\ c[5] = Fin(0) /\ c[6] = Fin(0)

\* valid samples at one pressure and temperatures 200, 220, 250, fitted
\* next to samples that were discarded
C4_Witness ==
    /\ FitDone
    /\ NValid > 2 /\ NValid < Len(args.T)
    /\ SpreadLogP = 0 /\ SpreadT > args.min_deltaT
    /\ ret.branch = "poly2_T"
    /\ ret.fit_result.coefficients[4].k = "lstsq"

----------------------------------------------------------------------------
(* C5: when every sample is invalid, no fit is attempted and the result is *)
(* the degenerate one: six coefficients 0, residuum, rank and singular     *)
(* values NaN, MinP = MinT = +inf, MaxP = MaxT = -inf, NumberOfPoints = 0. *)
C5_AllInvalidIsDegenerate ==
    (FitDone /\ ValidIdx = {}) =>
        /\ ret.branch = "none"
        /\ ret.M = <<>>
        /\ ret.fit_result.coefficients = [i \in 1..6 |-> Fin(0)]
        /\ isnan(ret.fit_result.residuum)
        /\ isnan(ret.fit_result.rank)
        /\ isnan(ret.fit_result.sgl_val)
        /\ ret.fit_result.MinP = PosInf /\ ret.fit_result.MinT = PosInf
        /\ ret.fit_result.MaxP = NegInf /\ ret.fit_result.MaxT = NegInf
        /\ ret.fit_result.NumberOfPoints = 0

\* three or more samples, each invalid, one of them by its T and another
\* by its pressure
C5_Witness ==
    /\ FitDone
    /\ Len(args.T) >= 3 /\ ValidIdx = {}
    /\ \E i \in DOMAIN args.T : args.T[i].k # "fin"
    /\ \E i \in DOMAIN args.T : args.T[i].k = "fin" /\ args.P[i].n <= 0
    /\ ret.fit_result.NumberOfPoints = 0

----------------------------------------------------------------------------
----------------------------------------------------------------------------
(* What the claims on the evaluation are stated with: the fitted           *)
(* polynomial in integers, for a temperature t and logP = l.               *)

\* the call has returned a value
XsecDone == pc = "done" /\ op = "calculate_xsec" /\ ret # IndexError

FullDone == pc = "done" /\ op = "calculate_xsec_fullmodel" /\ ret # IndexError

DerivDone == pc = "done" /\ op = "xsec_derivative" /\ ret # IndexError

CrossDone == pc = "done" /\ op = "calculate_cross_sections"

Bins == DOMAIN args.coeffs[1]

\* p00 + p10 t + p01 l + p20 t^2 + p11 t l + p02 l^2 of bin b
IntPoly(b, t, l) ==
    args.coeffs[1][b].n + args.coeffs[2][b].n * t + args.coeffs[3][b].n * l
        + args.coeffs[4][b].n * t * t + args.coeffs[5][b].n * t * l
        + args.coeffs[6][b].n * l * l

\* its derivative in t, and its derivative in l
IntPolyDt(b, t, l) ==
    args.coeffs[2][b].n + 2 * args.coeffs[4][b].n * t + args.coeffs[5][b].n * l

IntPolyDl(b, t, l) ==
    args.coeffs[3][b].n + args.coeffs[5][b].n * t + 2 * args.coeffs[6][b].n * l

\* lo <= v <= hi, for a finite v and bounds that are finite or infinite
Within(v, lo, hi) ==
    /\ IF lo.k = "fin" THEN lo.n <= v.n ELSE lo.n < 0
    /\ IF hi.k = "fin" THEN v.n <= hi.n ELSE hi.n > 0

\* the nearest value to v in [lo, hi]
Nearest(v, lo, hi) ==
    IF lo.k = "fin" /\ v.n < lo.n THEN lo.n
    ELSE IF hi.k = "fin" /\ v.n > hi.n THEN hi.n ELSE v.n

\* target i lies outside the frequency grid of band m
OutsideBand(m, i) ==
    LET f == args.wvn_user[i] * c0
        grid == Range(args.xsec_data[m].freq_data)
    IN  f < SetMin(grid) \/ f > SetMax(grid)

\* the species record without band m
WithoutBand(m) ==
    SubSeq(args.xsec_data, 1, m - 1)
        \o SubSeq(args.xsec_data, m + 1, Len(args.xsec_data))

----------------------------------------------------------------------------
(* C7: for every T, every P > 0 and every coefficient matrix,              *)
(* calculate_xsec returns, in every frequency bin, a value >= 0: the       *)
(* square of the coefficients' product with the basis                      *)
(* [1, T, logP, T^2, T logP, logP^2].                                      *)
C7_XsecNonNegative ==
    XsecDone =>
        /\ args.P.n > 0
        /\ DOMAIN ret.Xsec = Bins
        /\ \A b \in Bins :
              LET v == IntPoly(b, args.T.n, Exponent(args.P.n))
              IN  /\ ret.Xsec[b].k = "fin" /\ ret.Xsec[b].m = 0
                  /\ ret.Xsec[b].d = 1
                  /\ ret.Xsec[b].n >= 0
                  /\ ret.Xsec[b].n = v * v

\* a bin whose polynomial is negative and whose cross section is positive
C7_Witness ==
    /\ XsecDone
    /\ \E b \in Bins :
          /\ IntPoly(b, args.T.n, Exponent(args.P.n)) < 0
          /\ ret.Xsec[b].n > 0

----------------------------------------------------------------------------
(* C8: for every (T, P) with minT <= T <= maxT and minP <= P <= maxP, the  *)
(* boundary included, calculate_xsec_fullmodel takes the branch without    *)
(* extrapolation and returns the value of calculate_xsec(T, P, coeffs).    *)
C8_InteriorAgreement ==
    (/\ FullDone
     /\ Within(args.T, args.minT, args.maxT)
     /\ Within(args.P, args.minP, args.maxP)) =>
        /\ ~ret.extrapolated
        /\ \A b \in Bins :
              LET v == IntPoly(b, args.T.n, Exponent(args.P.n))
              IN  ret.xsec[b] = Fin(v * v)

\* a query on a corner of a finite envelope, with a cross section > 0
C8_Witness ==
    /\ FullDone
    /\ args.T = args.minT /\ args.P = args.maxP
    /\ args.minT # args.maxT /\ args.minP # args.maxP
    /\ ~ret.extrapolated
    /\ ret.xsec[1].n > 0

----------------------------------------------------------------------------
(* C9: for a query outside the envelope, the value returned is the value   *)
(* of calculate_xsec at the clamped point (T0, P0) plus dT (T - T0) +      *)
(* dP (P - P0), with the derivatives taken at (T0, P0); and with a zero    *)
(* offset the outside formula gives the value of calculate_xsec at         *)
(* (T0, P0), so the two formulas agree on the boundary.                    *)
C9_ContinuousAtBoundary ==
    (FullDone /\ ret.extrapolated) =>
        LET t0 == Nearest(args.T, args.minT, args.maxT)
            p0 == Nearest(args.P, args.minP, args.maxP)
            l0 == Exponent(p0)
        IN  /\ \A b \in Bins :
                  LET v == IntPoly(b, t0, l0)
                      dT == 2 * IntPolyDt(b, t0, l0) * v
                      dl == 2 * IntPolyDl(b, t0, l0) * v
                  IN  ret.xsec[b] =
                          Real((v * v + dT * (args.T.n - t0)) * p0,
                               dl * (args.P.n - p0), p0)
            /\ extrapolate(Fin(t0), Fin(p0), args.coeffs, Fin(t0), Fin(p0))
                  = [b \in Bins |-> Fin(IntPoly(b, t0, l0) * IntPoly(b, t0, l0))]

\* a query outside in T only, whose value differs from the boundary's
C9_Witness ==
    /\ FullDone /\ ret.extrapolated
    /\ ~Within(args.T, args.minT, args.maxT)
    /\ Within(args.P, args.minP, args.maxP)
    /\ args.P # args.maxP
    /\ LET t0 == Nearest(args.T, args.minT, args.maxT)
           v == IntPoly(1, t0, Exponent(args.P.n))
       IN  ret.xsec[1] # Fin(v * v)

----------------------------------------------------------------------------
(* C10: in calculate_cross_sections, a band contributes exactly 0 to every *)
(* output bin whose frequency wvn * c0 * 100 Hz lies outside the band's    *)
(* frequency grid, and a band whose grid holds none of the frequencies     *)
(* asked for leaves the output as it is without the band.                  *)
C10_ZeroOutsideBand ==
    CrossDone =>
        /\ \A m \in DOMAIN args.xsec_data : \A i \in DOMAIN args.wvn_user :
              OutsideBand(m, i) => ret.xsec_user_m[m][i] = Fin(0)
        /\ \A m \in DOMAIN args.xsec_data :
              (\A i \in DOMAIN args.wvn_user : OutsideBand(m, i)) =>
                  ret.xsec_user = calculate_cross_sections(args.wvn_user,
                                      WithoutBand(m), args.temperature,
                                      args.pressure)

\* two bands: one holds none of the frequencies asked for, the other gives
\* an output that is not 0
C10_Witness ==
    /\ CrossDone
    /\ Len(args.xsec_data) = 2
    /\ \E m \in DOMAIN args.xsec_data :
          \A i \in DOMAIN args.wvn_user : OutsideBand(m, i)
    /\ \E i \in DOMAIN args.wvn_user : ret.xsec_user[i] # Fin(0)

----------------------------------------------------------------------------
\* the contributions of the bands 1..m to target i, added in band order
RECURSIVE BandSum(_, _)
BandSum(i, m) ==
    IF m = 0 THEN Fin(0) ELSE Add(BandSum(i, m - 1), ret.xsec_user_m[m][i])

\* the frequency of target i is inside the grid of band m, ends included
InsideBand(m, i) == ~OutsideBand(m, i)

(* C11: the output of calculate_cross_sections has the shape of the        *)
(* wavenumbers asked for and holds, at every target, the sum over all the  *)
(* bands of the band's own interpolated value there (0 outside the band's  *)
(* grid), added to a vector of zeros: bands that overlap add, and a record *)
(* without bands gives zeros.                                              *)
C11_OverlapAdditivity ==
    CrossDone =>
        /\ DOMAIN ret.xsec_user = DOMAIN args.wvn_user
        /\ \A i \in DOMAIN args.wvn_user :
              ret.xsec_user[i] = BandSum(i, Len(args.xsec_data))
        /\ args.xsec_data = <<>> =>
              \A i \in DOMAIN args.wvn_user : ret.xsec_user[i] = Fin(0)

\* two different bands that both hold a target and both give a value there
C11_Witness ==
    /\ CrossDone
    /\ Len(args.xsec_data) = 2
    /\ args.xsec_data[1] # args.xsec_data[2]
    /\ \E i \in DOMAIN args.wvn_user :
          /\ InsideBand(1, i) /\ InsideBand(2, i)
          /\ ret.xsec_user_m[1][i] # Fin(0)
          /\ ret.xsec_user_m[2][i] # Fin(0)
          /\ ret.xsec_user[i] # ret.xsec_user_m[2][i]

----------------------------------------------------------------------------
\* band m stores the result of a fit without valid samples
DegenerateBand(m) ==
    LET band == args.xsec_data[m]
    IN  /\ \A b \in DOMAIN band.data : band.data[b] = zeros6
        /\ band.MinT = PosInf /\ band.MaxT = NegInf
        /\ band.MinP = PosInf /\ band.MaxP = NegInf

(* C12 (as claimed): for a species record with a band that stores the      *)
(* degenerate fit result (coefficients all 0, minima +inf, maxima -inf),   *)
(* calculate_cross_sections returns at every target, for every finite T    *)
(* and P > 0, what it returns for the record without that band.            *)
C12_DegenerateBandIsIgnored ==
    CrossDone =>
        \A m \in DOMAIN args.xsec_data :
            DegenerateBand(m) =>
                ret.xsec_user = calculate_cross_sections(args.wvn_user,
                                    WithoutBand(m), args.temperature,
                                    args.pressure)

----------------------------------------------------------------------------
\* a call of one of the three functions that evaluate the fit has ended
EvalEnded ==
    /\ pc = "done"
    /\ op \in {"calculate_xsec", "xsec_derivative", "calculate_xsec_fullmodel"}

\* the first six rows of the coefficient matrix of the call
FirstSix == SubSeq(args.coeffs, 1, 6)

\* what the call returns for the coefficient matrix c
ValueFor(c) ==
    CASE op = "calculate_xsec" -> [Xsec |-> calculate_xsec(args.T, args.P, c)]
      [] op = "xsec_derivative" -> xsec_derivative(args.T, args.P, c)
      [] OTHER ->
            [xsec |-> calculate_xsec_fullmodel(args.T, args.P, c, args.minT,
                          args.maxT, args.minP, args.maxP),
             extrapolated |-> outside(args.T, args.P, args.minT, args.maxT,
                                      args.minP, args.maxP)]

(* C13 (as claimed): calculate_xsec, xsec_derivative and                   *)
(* calculate_xsec_fullmodel raise, and return no value, whenever the       *)
(* coefficient matrix has not exactly 6 rows: fewer than 6 or more than 6. *)
C13_FailFastUnlessSixRows ==
    (EvalEnded /\ Len(args.coeffs) # 6) => ret = IndexError

(* C13 (amended): the three functions raise, and return no value, whenever *)
(* the coefficient matrix has fewer than 6 rows; with 6 rows or more they  *)
(* return a value, and with more than 6 rows it is the value for the first *)
(* 6 rows: the rows after the sixth are ignored.                           *)
C13_FailFastBelowSixRows ==
    EvalEnded =>
        /\ Len(args.coeffs) < 6 => ret = IndexError
        /\ Len(args.coeffs) >= 6 => ret # IndexError /\ ret = ValueFor(FirstSix)

\* a call with 5 rows that raised
C13_Witness ==
    /\ EvalEnded
    /\ op = "calculate_xsec_fullmodel"
    /\ Len(args.coeffs) = 5
    /\ ret = IndexError

----------------------------------------------------------------------------
RsquareDone == pc = "done" /\ op = "calc_Rsquare"

\* the samples of y that are not NaN, and those with a deviation y - yfit
Counted == {i \in DOMAIN args.y : ~isnan(args.y[i])}

Fitted == {i \in Counted : ~isnan(args.yfit[i])}

RECURSIVE SumOver(_, _)
SumOver(S, f) ==
    IF S = {} THEN 0
    ELSE LET i == CHOOSE j \in S : TRUE IN f[i] + SumOver(S \ {i}, f)

\* SSE, and SST times n^2, over the samples that are not NaN
SumSqErr ==
    SumOver(Fitted, [i \in Fitted |->
        (args.y[i].n - args.yfit[i].n) * (args.y[i].n - args.yfit[i].n)])

SumSqTot ==
    LET n == Cardinality(Counted)
        sum == SumOver(Counted, [i \in Counted |-> args.y[i].n])
    IN  SumOver(Counted, [i \in Counted |->
            (n * args.y[i].n - sum) * (n * args.y[i].n - sum)])

(* C14 (as claimed): calc_Rsquare returns NaN exactly when SST = 0 or      *)
(* n = k, with n the number of samples that are not NaN and k the number   *)
(* of coefficients; otherwise it returns 1 - SSE (n - 1) / (SST (n - k))   *)
(* with that n.                                                            *)
C14_RsquareOverCountedSamples ==
    RsquareDone =>
        LET n == Cardinality(Counted)
            k == args.Ncoeffs
        IN  IF SumSqTot = 0 \/ n = k THEN ret.rsquare = NaN
            ELSE ret.rsquare =
                     Rat(SumSqTot * (n - k) - SumSqErr * (n - 1) * n * n,
                         SumSqTot * (n - k))

----------------------------------------------------------------------------
\* the columns of the model of a branch at the sample (x, y)
ModelColumns(branch, x, y) ==
    LET pos == Ascending(UsedPositions(branch))
    IN  [j \in DOMAIN pos |-> Basis(pos[j], x, y)]

(* C15 (as claimed): in every branch with a fit, the design matrix handed  *)
(* to the solver has one row per valid sample and exactly the columns of   *)
(* the selected model ([1, x, y, x^2, xy, y^2], [1, x, y], [1, x, x^2] or  *)
(* [1, x]), so it never has more columns than there are valid samples.     *)
C15_DesignMatrixOfSelectedModel ==
    (FitDone /\ ret.branch \notin {"mean", "none"}) =>
        /\ Len(ret.M) = NValid
        /\ LET asc == Ascending(ValidIdx)
           IN  \A r \in 1..NValid :
                   ret.M[r] = ModelColumns(ret.branch, args.T[asc[r]].n,
                                           Exponent(args.P[asc[r]].n))
        /\ Len(ret.M[1]) <= NValid

----------------------------------------------------------------------------
\* v clamped to [lo, hi]: lo below it, hi above it, v itself otherwise
Clamp(v, lo, hi) == IF Lt(v, lo) THEN lo ELSE IF Lt(hi, v) THEN hi ELSE v

\* lo <= v <= hi for floats
Inside(v, lo, hi) == ~Lt(v, lo) /\ ~Lt(hi, v)

(* C16: for a query (T, P) outside an envelope with minT <= maxT and       *)
(* minP <= maxP, calculate_xsec_fullmodel clamps each axis on its own, so  *)
(* that (T0, P0) lies inside the envelope and an axis that is in range     *)
(* keeps its value and adds nothing, and returns calculate_xsec(T0, P0) +  *)
(* dT (T - T0) + dP (P - P0) with dT, dP from xsec_derivative(T0, P0).     *)
C16_IndependentClamping ==
    (/\ FullDone /\ ret.extrapolated
     /\ ~Lt(args.maxT, args.minT) /\ ~Lt(args.maxP, args.minP)) =>
        LET t0 == Clamp(args.T, args.minT, args.maxT)
            p0 == Clamp(args.P, args.minP, args.maxP)
            x0 == calculate_xsec(t0, p0, args.coeffs)
            D == xsec_derivative(t0, p0, args.coeffs)
        IN  /\ Inside(t0, args.minT, args.maxT)
            /\ Inside(p0, args.minP, args.maxP)
            /\ t0.k = "fin" /\ p0.k = "fin"
            /\ Inside(args.T, args.minT, args.maxT) => t0 = args.T
            /\ Inside(args.P, args.minP, args.maxP) => p0 = args.P
            /\ \A b \in Bins :
                  /\ ret.xsec[b] =
                        Add(Add(x0[b], Mul(D.DxsecDT[b], Sub(args.T, t0))),
                            Mul(D.DxsecDp[b], Sub(args.P, p0)))
                  /\ t0 = args.T =>
                        ret.xsec[b] =
                            Add(x0[b], Mul(D.DxsecDp[b], Sub(args.P, p0)))
                  /\ p0 = args.P =>
                        ret.xsec[b] =
                            Add(x0[b], Mul(D.DxsecDT[b], Sub(args.T, t0)))

\* a query outside on both axes, above in T and below in P, with both
\* derivatives at the corner different from 0
C16_Witness ==
    /\ FullDone /\ ret.extrapolated
    /\ Lt(args.maxT, args.T) /\ Lt(args.P, args.minP)
    /\ LET D == xsec_derivative(args.maxT, args.minP, args.coeffs)
       IN  D.DxsecDT[1] # Fin(0) /\ D.DxsecDp[1] # Fin(0)
    /\ ret.xsec[1] # calculate_xsec(args.maxT, args.minP, args.coeffs)[1]

----------------------------------------------------------------------------
\* the valid samples of s, in their order
ValidOnly(s) ==
    LET asc == Ascending(ValidIdx) IN [r \in DOMAIN asc |-> s[asc[r]]]

\* the fit of the valid samples alone
FitOfValid ==
    fit_xsec_data(ValidOnly(args.T), ValidOnly(args.P), ValidOnly(args.Xsec),
                  args.min_deltaLogP, args.min_deltaT)

\* the branch, the envelope and the number of samples of a fit f
Summary(f) ==
    <<f.branch, f.fit_result.MinT, f.fit_result.MaxT, f.fit_result.MinP,
      f.fit_result.MaxP, f.fit_result.NumberOfPoints>>

(* C17: NumberOfPoints is the number of samples whose T, log10(P) and      *)
(* sqrt(Xsec) are all finite numbers (a sample with P = 0, P < 0 or        *)
(* Xsec < 0 is dropped, nothing is raised), and with at least one valid    *)
(* sample the branch taken, the envelope and NumberOfPoints are those of   *)
(* the fit of the valid samples alone, whatever invalid samples the input  *)
(* holds besides.                                                          *)
C17_OnlyValidSamplesCount ==
    FitDone =>
        /\ ret.fit_result.NumberOfPoints = NValid
        /\ NValid >= 1 =>
              /\ ret.branch # "none"
              /\ LET r == ret.fit_result
                 IN  <<ret.branch, r.MinT, r.MaxT, r.MinP, r.MaxP,
                       r.NumberOfPoints>> = Summary(FitOfValid)
              /\ ret.fit_result.MinT.n = SetMin(ValidT)
              /\ ret.fit_result.MaxT.n = SetMax(ValidT)
              /\ ret.fit_result.MinP.n = SetMin(ValidP)
              /\ ret.fit_result.MaxP.n = SetMax(ValidP)

\* three valid samples among samples with P = 0, with P < 0 and with
\* Xsec < 0
C17_Witness ==
    /\ FitDone
    /\ NValid = 3
    /\ ret.branch = "poly11"
    /\ \E i \in DOMAIN args.P : args.P[i] = Fin(0)
    /\ \E i \in DOMAIN args.P : args.P[i].k = "fin" /\ args.P[i].n < 0
    /\ \E i \in DOMAIN args.Xsec : args.Xsec[i].k = "fin" /\ args.Xsec[i].n < 0
    /\ ret.fit_result.NumberOfPoints = 3

----------------------------------------------------------------------------
\* bin b holds the coefficients of a fit in T only (p01 = p11 = p02 = 0),
\* of a fit in P only (p10 = p20 = p11 = 0); the constant fit is both
TOnly(b) ==
    args.coeffs[3][b] = Fin(0) /\ args.coeffs[5][b] = Fin(0)
        /\ args.coeffs[6][b] = Fin(0)

POnly(b) ==
    args.coeffs[2][b] = Fin(0) /\ args.coeffs[4][b] = Fin(0)
        /\ args.coeffs[5][b] = Fin(0)

(* C18: for the coefficients of a fit in T only or of the constant fit,    *)
(* xsec_derivative returns a pressure derivative of 0 and                  *)
(* calculate_xsec_fullmodel returns a value fixed by T alone, the same for *)
(* every P > 0 inside and outside the envelope in P; for the coefficients  *)
(* of a fit in P only or of the constant fit, the temperature derivative   *)
(* is 0 and the value returned is fixed by P alone.                        *)
C18_UnusedAxisHasNoEffect ==
    /\ DerivDone =>
          \A b \in Bins :
              /\ TOnly(b) => ret.DxsecDp[b] = Fin(0)
              /\ POnly(b) => ret.DxsecDT[b] = Fin(0)
    /\ FullDone =>
          \A b \in Bins :
              /\ TOnly(b) =>
                    LET t0 == Nearest(args.T, args.minT, args.maxT)
                        v == IntPoly(b, t0, 0)
                    IN  ret.xsec[b] =
                            Fin(v * v + 2 * IntPolyDt(b, t0, 0) * v
                                            * (args.T.n - t0))
              /\ POnly(b) =>
                    LET p0 == Nearest(args.P, args.minP, args.maxP)
                        v == IntPoly(b, 0, Exponent(p0))
                    IN  ret.xsec[b] =
                            Real(v * v * p0,
                                 2 * IntPolyDl(b, 0, Exponent(p0)) * v
                                     * (args.P.n - p0),
                                 p0)

\* a fit in T only with p10 # 0, asked outside the envelope in P and inside
\* the envelope in T, with a value that is not 0
C18_Witness ==
    /\ FullDone /\ ret.extrapolated
    /\ TOnly(1) /\ args.coeffs[2][1] # Fin(0)
    /\ Within(args.T, args.minT, args.maxT)
    /\ ~Within(args.P, args.minP, args.maxP)
    /\ ret.xsec[1] # Fin(0)

====
